---- MODULE Spec2Model ----
(***************************************************************************)
(* SlideX multi-agent pipeline: SlideXOrchestrator.generate_presentation   *)
(* and the agents it drives (document understanding, topic naming, slide   *)
(* planning, content generation, refinement).                              *)
(*                                                                         *)
(* Data representation                                                    *)
(*   word      a string without blanks                                     *)
(*   title     a sequence of words (the words joined by one blank)         *)
(*   bullet    a sequence of words                                         *)
(*   sentence  a sequence of words (text between two of . ! ?)             *)
(*   paragraph a sequence of sentences                                     *)
(*   text      a sequence of paragraphs (separated by a blank line)        *)
(* The LLM collaborator is a nondeterministic choice of a response at each *)
(* call; the text-extraction collaborators are a nondeterministic choice   *)
(* of availability.                                                        *)
(***************************************************************************)
EXTENDS Integers, Sequences, FiniteSets, TLC

\* ------------------------------------------------------------------ bounds
\* largest target_slide_count tried
MaxTarget == 3
\* number of sentences of the longest input text
MaxSentences == 4
\* number of paragraphs of the longest text of the runs without an LLM
MaxParagraphs == 9
\* largest target_slide_count of the runs without an LLM
MaxFallbackTarget == 5
\* calls of generate_presentation on one orchestrator
MaxRuns == 2
\* largest target_slide_count of those calls
MaxSessionTarget == 2
\* longest slide list handed to refine_slides on its own
MaxSlides == 3

\* --------------------------------------------------------- generic helpers
Min(a, b) == IF a < b THEN a ELSE b
Max(a, b) == IF a > b THEN a ELSE b

\* Python slice s[:n]
Take(s, n) == SubSeq(s, 1, Min(Len(s), Max(n, 0)))

\* Python slice s[a:b] with 0-based a, b
Slice(s, a, b) == SubSeq(s, a + 1, Min(Len(s), b))

RECURSIVE Flatten(_)
\* concatenation of a sequence of sequences
Flatten(ss) == IF ss = <<>> THEN <<>> ELSE Head(ss) \o Flatten(Tail(ss))

\* the value Python's None (JSON null) where a string is expected
None == "<None>"

\* ------------------------------------------------------------------- words
\* str.lower() on one word: every capital of the vocabulary that the model
\* uses is listed; a word without capitals is its own lower case
LowerWord(w) ==
    CASE w = "Overview" -> "overview"
      [] w = "OVERVIEW" -> "overview"
      [] w = "Conclusion" -> "conclusion"
      [] w = "Summary" -> "summary"
      [] w = "Topic" -> "topic"
      [] w = "Slide" -> "slide"
      [] w = "Untitled" -> "untitled"
      [] w = "Content" -> "content"
      [] w = "Introduction" -> "introduction"
      [] w = "Additional" -> "additional"
      [] w = "Photosynthesis" -> "photosynthesis"
      [] w = "Chlorophyll" -> "chlorophyll"
      [] w = "Hello" -> "hello"
      [] OTHER -> w

\* str.lower() on a title or bullet
Lower(t) == [i \in DOMAIN t |-> LowerWord(t[i])]

RECURSIVE CharLen(_)
\* len() of the words joined by single blanks
CharLen(ws) ==
    IF ws = <<>> THEN 0
    ELSE Len(Head(ws)) + (IF Len(ws) > 1 THEN 1 + CharLen(Tail(ws)) ELSE 0)

RECURSIVE TakeChars(_, _)
\* Python slice text[:n] of the joined words; the vocabulary has no title or
\* sentence that the cut would split inside a word: a word that does not fit
\* whole is dropped
TakeChars(ws, n) ==
    IF ws = <<>> \/ Len(Head(ws)) > n THEN <<>>
    ELSE <<Head(ws)>> \o TakeChars(Tail(ws), n - Len(Head(ws)) - 1)

\* "conclusion" in title.lower()
ContainsConclusion(t) == \E i \in DOMAIN t : LowerWord(t[i]) = "conclusion"

ConclusionTitle == <<"Conclusion">>
TopicTitle(n) == <<"Topic", ToString(n)>>

\* ============================================================ Slide Planner
\* One plan entry (bullet_count and topic_indices are never read by the
\* pipeline and are left out)
PlanEntry(n, t, f, ty) ==
    [slide_number |-> n, title |-> t, content_focus |-> f, slide_type |-> ty]

FocusIntro == <<"Introduction", "and", "overview">>
FocusAdditional == <<"Additional", "information">>
FocusTopic(name) == <<"Content", "from", "topic:">> \o name

RECURSIVE FallbackDistribute(_, _, _, _, _)
\* the while loop of _fallback_planning: topic after topic, min(per, remaining)
\* content slides titled with the topic's name
FallbackDistribute(slides, named_topics, topic_idx, remaining, per) ==
    IF remaining > 0 /\ topic_idx < Len(named_topics)
    THEN LET name == named_topics[topic_idx + 1].name
             k == Min(per, remaining)
             base == Len(slides) + 1
             new == [i \in 1..k |->
                        PlanEntry(base + i - 1, name, FocusTopic(name), "content")]
         IN FallbackDistribute(slides \o new, named_topics, topic_idx + 1,
                               remaining - k, per)
    ELSE slides

RECURSIVE FallbackFill(_, _)
\* the filler loop of _fallback_planning
FallbackFill(content_slides, target) ==
    IF Len(content_slides) < target - 1
    THEN FallbackFill(
             Append(content_slides,
                    PlanEntry(Len(content_slides) + 1,
                              TopicTitle(Len(content_slides) + 1),
                              FocusAdditional, "content")),
             target)
    ELSE content_slides

\* SlidePlanningAgent._fallback_planning
FallbackPlanning(named_topics, target) ==
    IF named_topics = <<>> \/ target <= 0 THEN <<>>
    ELSE
      LET num_topics == Len(named_topics)
          per == Max(1, target \div num_topics)
          first == <<PlanEntry(1, named_topics[1].name, FocusIntro, "title")>>
          all == FallbackDistribute(first, named_topics, 0, target - 1, per)
          NotConclusion(s) == LowerWord(s.slide_type) # "conclusion"
          kept == SelectSeq(all, NotConclusion)
          content == IF target > 1 THEN Take(kept, target - 1) ELSE Take(kept, target)
          filled == FallbackFill(content, target)
      IN IF target > 1
         THEN Take(filled, target - 1) \o
              <<PlanEntry(target, ConclusionTitle,
                          <<"Summary", "and", "key", "takeaways">>, "conclusion")>>
         ELSE Take(filled, target)

RECURSIVE LangchainPad(_, _)
\* the padding loop of _langchain_plan_slides
LangchainPad(slides, target) ==
    IF Len(slides) < target
    THEN LET slide_num == Len(slides) + 1
         IN LangchainPad(
              Append(slides,
                     IF slide_num = target
                     THEN PlanEntry(slide_num, ConclusionTitle,
                                    <<"Summary", "and", "conclusion">>, "conclusion")
                     ELSE PlanEntry(slide_num, TopicTitle(slide_num),
                                    FocusAdditional, "content")),
              target)
    ELSE slides

\* the final overwrite of the last entry in _langchain_plan_slides
LangchainForceLast(slides, target) ==
    IF slides # <<>> /\ target > 1
    THEN [slides EXCEPT ![Len(slides)] =
             [@ EXCEPT !.slide_number = target,
                       !.slide_type = "conclusion",
                       !.title = ConclusionTitle]]
    ELSE slides

\* one character of a JSON string
Chr(c) == [chr |-> c]
\* the plan is a dict (it has .get and item assignment)
IsDict(plan) == "slide_number" \in DOMAIN plan

\* SlidePlanningAgent._langchain_plan_slides on the LLM's response resp:
\* resp.kind is "raise" (the call raises), "malformed" (no JSON object with a
\* "slides" key), "entries" (resp.entries is the parsed "slides" list) or
\* "string" ("slides" is a JSON string, resp.entries its characters). A
\* string is sliced like a list; the item assignment of line 207 or the
\* append of the padding loop raises on it and the handler of line 243
\* plans by fallback, and when neither runs the slice is what is returned
LangchainPlanSlides(named_topics, target, resp) ==
    IF resp.kind = "string"
    THEN LET cut == Take(resp.entries, target)
         IN IF (cut # <<>> /\ target > 1) \/ Len(cut) < target
            THEN FallbackPlanning(named_topics, target)
            ELSE cut
    ELSE IF resp.kind = "entries"
    THEN LET cut == Take(resp.entries, target)
             first == IF cut # <<>> /\ target > 1
                      THEN [cut EXCEPT ![Len(cut)] =
                              [@ EXCEPT !.slide_number = target,
                                        !.slide_type = "conclusion",
                                        !.title = IF ContainsConclusion(@)
                                                  THEN @ ELSE ConclusionTitle]]
                      ELSE cut
             padded == LangchainPad(first, target)
         IN Take(LangchainForceLast(padded, target), target)
    ELSE FallbackPlanning(named_topics, target)

\* SlidePlanningAgent._parse_text_plan on the entries matched in the lines of
\* the response; the matched type is lower-cased
ParseTextPlan(entries, target, named_topics) ==
    LET slides == [i \in DOMAIN entries |->
                      [entries[i] EXCEPT !.slide_type = LowerWord(@)]]
    IN IF Len(slides) < target
       THEN FallbackPlanning(named_topics, target)
       ELSE Take(slides, target)

\* SlidePlanningAgent._genai_plan_slides
GenaiPlanSlides(named_topics, target, resp) ==
    IF resp.kind = "raise"
    THEN FallbackPlanning(named_topics, target)
    ELSE ParseTextPlan(IF resp.kind = "entries" THEN resp.entries ELSE <<>>,
                       target, named_topics)

\* SlidePlanningAgent.plan_slides; backend is "none" (self.llm is None),
\* "langchain" or "genai"
PlanSlides(named_topics, target, backend, resp) ==
    IF target <= 0 THEN <<>>
    ELSE IF backend = "none" THEN FallbackPlanning(named_topics, target)
    ELSE IF backend = "langchain" THEN LangchainPlanSlides(named_topics, target, resp)
    ELSE GenaiPlanSlides(named_topics, target, resp)

\* ======================================================= Content Generator
\* re.sub(r'^\(\d+\)\s*', '', title): a leading word "(N)" is removed
ParenNumbers == {"(" \o ToString(n) \o ")" : n \in 0..9}
StripParen(t) == IF t # <<>> /\ Head(t) \in ParenNumbers THEN Tail(t) ELSE t

\* re.sub(r'^\d+\.\s*', '', title): a leading word "N." is removed
DotNumbers == {ToString(n) \o "." : n \in 0..9}
StripDot(t) == IF t # <<>> /\ Head(t) \in DotNumbers THEN Tail(t) ELSE t

\* re.sub(r'^Slide\s+\d+:\s*', '', title, flags=re.IGNORECASE)
ColonNumbers == {ToString(n) \o ":" : n \in 0..9}
StripSlideN(t) ==
    IF Len(t) >= 2 /\ LowerWord(t[1]) = "slide" /\ t[2] \in ColonNumbers
    THEN SubSeq(t, 3, Len(t)) ELSE t

RECURSIVE StripLeadingBlanks(_)
\* a title with blanks at an end is the word sequence with empty words at
\* that end (joined by single blanks it gives the padded string)
StripLeadingBlanks(t) ==
    IF t # <<>> /\ Head(t) = "" THEN StripLeadingBlanks(Tail(t)) ELSE t

RECURSIVE StripTrailingBlanks(_)
StripTrailingBlanks(t) ==
    IF t # <<>> /\ t[Len(t)] = "" THEN StripTrailingBlanks(SubSeq(t, 1, Len(t) - 1)) ELSE t

\* str.strip()
StripBlanks(t) == StripTrailingBlanks(StripLeadingBlanks(t))

\* the three substitutions in the order every caller applies them
StripNumbering(t) == StripSlideN(StripDot(StripParen(t)))

\* re.split(r'[.!?]+', text): the sentences of all paragraphs in order
Sentences(text) == Flatten(text)

\* len(s.strip()) > 20
MinSentenceChars == 20
ValidSentences(text) ==
    LET Valid(s) == CharLen(s) > MinSentenceChars
    IN SelectSeq(Sentences(text), Valid)

\* what a call returns: a value, or the exception it raises
Returned(v) == [raised |-> "", value |-> v]
Raised(e) == [raised |-> e, value |-> <<>>]

Slide(n, t, bs, ty, f) ==
    [slide_number |-> n, title |-> t, bullet_points |-> bs,
     slide_type |-> ty, content_focus |-> f]

BulletChars == 100
FallbackBullets == 5

\* ContentGenerationAgent._fallback_content_generation: the modulo raises
\* ZeroDivisionError when the text has no sentence of more than 20 characters
FallbackContentGeneration(plan, text) ==
    LET title == StripDot(StripParen(plan.title))
        valid == ValidSentences(text)
    IN IF valid = <<>> THEN Raised("integer modulo by zero")
       ELSE LET start_idx == ((plan.slide_number - 1) * 3) % Len(valid)
                end_idx == Min(start_idx + 5, Len(valid))
                relevant == Slice(valid, start_idx, end_idx)
                cut == [i \in DOMAIN relevant |-> TakeChars(relevant[i], BulletChars)]
                NonEmpty(b) == b # <<>>
                bullets == SelectSeq(cut, NonEmpty)
                final == IF bullets = <<>>
                         THEN << <<"Content", "for", "topic:">> \o title >>
                         ELSE bullets
            IN Returned(Slide(plan.slide_number, title, Take(final, FallbackBullets),
                              plan.slide_type, plan.content_focus))

\* set(bullet.lower().split())
WordSet(b) == {LowerWord(b[i]) : i \in DOMAIN b}

\* ContentGenerationAgent._validate_uniqueness; overlap > len * 0.7 is
\* compared in tenths
ValidateUniqueness(slide, previous) ==
    IF previous = <<>> THEN TRUE
    ELSE /\ \A p \in DOMAIN previous : Lower(slide.title) # Lower(previous[p].title)
         /\ \A b \in DOMAIN slide.bullet_points :
              \A p \in DOMAIN previous :
                \A q \in DOMAIN previous[p].bullet_points :
                  LET bw == WordSet(slide.bullet_points[b])
                      pw == WordSet(previous[p].bullet_points[q])
                  IN ~(Cardinality(bw \cap pw) * 10 > Cardinality(bw) * 7)

MaxBullets == 8

\* ContentGenerationAgent._parse_content_response: resp.title is the line
\* after TITLE: (<<>> when there is none), resp.bullets the bullet lines
\* without their marker
ParseContentResponse(resp, plan) ==
    LET title == IF resp.title # <<>> /\ resp.title # plan.title
                 THEN resp.title ELSE plan.title
        bullets == IF resp.bullets # <<>> THEN resp.bullets
                   ELSE IF plan.content_focus # <<>> THEN <<plan.content_focus>>
                   ELSE << <<"Content", "pending">> >>
    IN Slide(plan.slide_number, StripNumbering(title), Take(bullets, MaxBullets),
             plan.slide_type, plan.content_focus)

\* ContentGenerationAgent._langchain_generate_content: resp.kind is "raise",
\* "short" (fewer than 10 characters) or "text"
LangchainGenerateContent(plan, text, resp, previous) ==
    IF resp.kind # "text" THEN FallbackContentGeneration(plan, text)
    ELSE LET parsed == ParseContentResponse(resp, plan)
         IN IF ValidateUniqueness(parsed, previous)
            THEN Returned(parsed)
            ELSE FallbackContentGeneration(plan, text)

\* ContentGenerationAgent._genai_generate_content: a rejected slide is only
\* reported, the parsed slide is returned all the same
GenaiGenerateContent(plan, text, resp, previous) ==
    IF resp.kind = "raise" THEN FallbackContentGeneration(plan, text)
    ELSE Returned(ParseContentResponse(
             IF resp.kind = "text" THEN resp ELSE [resp EXCEPT !.title = <<>>, !.bullets = <<>>],
             plan))

\* ContentGenerationAgent.generate_slide_content: every path that fails ends
\* in the fallback generator, whose exception is the one that escapes
GenerateSlideContent(plan, text, backend, resp, previous) ==
    IF ~IsDict(plan) THEN Raised("'str' object has no attribute 'get'")
    ELSE IF backend = "none" THEN FallbackContentGeneration(plan, text)
    ELSE IF backend = "langchain" THEN LangchainGenerateContent(plan, text, resp, previous)
    ELSE GenaiGenerateContent(plan, text, resp, previous)

UsedContentChars == 50

\* self.used_titles after generate_slide_content has returned slide: only
\* the path through an LLM client records the title
UsedTitlesAfter(slide, backend, used) ==
    IF backend # "none" /\ slide.title # <<>>
    THEN used \cup {Lower(slide.title)} ELSE used

\* self.used_content after generate_slide_content has returned slide
UsedContentAfter(slide, backend, used) ==
    IF backend # "none"
    THEN used \cup {TakeChars(Lower(slide.bullet_points[b]), UsedContentChars) :
                       b \in DOMAIN slide.bullet_points}
    ELSE used

\* ============================================================== Refinement
TitleWords == 8
TitleChars == 60

\* re.sub(r'[^\w\s]$', '', title) on the last word, for the words of the
\* vocabulary that end in a punctuation mark
StripTrailingPunct(t) ==
    IF t = <<>> THEN t
    ELSE [t EXCEPT ![Len(t)] = CASE @ = "topic:" -> "topic"
                                 [] @ = "include:" -> "include"
                                 [] OTHER -> @]

\* RefinementAgent._generate_title_from_content; a bullet of the model is
\* one sentence, so sentences[0] is the whole bullet
GenerateTitleFromContent(content) ==
    TakeChars(StripDot(StripParen(StripTrailingPunct(Take(content, TitleWords)))),
              TitleChars)

Pronouns == {"this", "that", "these", "those", "there"}

RECURSIVE SuffixUnique(_, _, _)
\* the while loop of _generate_unique_title_from_content; the first call
\* tries base_title itself
SuffixUnique(base_title, counter, seen_titles) ==
    LET unique_title == IF counter = 0 THEN base_title
                        ELSE Append(base_title, ToString(counter))
    IN IF unique_title \in seen_titles
       THEN SuffixUnique(base_title, counter + 1, seen_titles)
       ELSE unique_title

\* RefinementAgent._generate_unique_title_from_content
GenerateUniqueTitleFromContent(content, seen_titles) ==
    LET first == GenerateTitleFromContent(content)
        IsTopicWord(w) == Len(w) > 4 /\ LowerWord(w) \notin Pronouns
        topic_words == SelectSeq(Take(content, 5), IsTopicWord)
        base_title == IF first \in seen_titles /\ topic_words # <<>>
                      THEN Take(topic_words, 3) ELSE first
    IN SuffixUnique(base_title, 0, seen_titles)

\* title_counts.get(title, 0)
CountOf(title_counts, title) ==
    IF title \in DOMAIN title_counts THEN title_counts[title] ELSE 0

RECURSIVE FixDuplicates(_, _, _, _)
\* second loop of _ensure_consistency, from slide i on
FixDuplicates(slides, i, seen_titles, title_counts) ==
    IF i > Len(slides) THEN slides
    ELSE
      LET slide == slides[i]
          title == slide.title
      IN IF CountOf(title_counts, title) > 1 /\ title \in seen_titles
         THEN IF slide.bullet_points # <<>>
              THEN LET new_title == GenerateUniqueTitleFromContent(
                                        slide.bullet_points[1], seen_titles)
                   IN FixDuplicates([slides EXCEPT ![i].title = new_title], i + 1,
                                    seen_titles \cup {new_title},
                                    [title_counts EXCEPT ![title] = @ - 2])
              ELSE FixDuplicates(
                       IF slide.slide_number > 1
                       THEN [slides EXCEPT ![i].title = TopicTitle(slide.slide_number)]
                       ELSE slides,
                       i + 1, seen_titles,
                       [title_counts EXCEPT ![title] = @ - 1])
         ELSE FixDuplicates(slides, i + 1, seen_titles \cup {title}, title_counts)

\* IsPlaceholder that also takes the generic section names for placeholders
IsPlaceholderOrGeneric(title) ==
    title = <<>> \/ Lower(title) \in {<<"untitled">>, <<"slide">>, <<"overview">>, <<"summary">>}

\* not title or title.lower() in ["untitled", "slide"]
IsPlaceholder(title) == title = <<>> \/ Lower(title) \in {<<"untitled">>, <<"slide">>}

\* RefinementAgent._ensure_consistency
EnsureConsistency(slides) ==
    LET cleaned == [i \in DOMAIN slides |->
                       [slides[i] EXCEPT !.title = StripNumbering(StripBlanks(@))]]
        titles == {cleaned[i].title : i \in DOMAIN cleaned} \ {<<>>}
        title_counts == [t \in titles |->
                            Cardinality({i \in DOMAIN cleaned : cleaned[i].title = t})]
        fixed == FixDuplicates(cleaned, 1, {}, title_counts)
    IN [i \in DOMAIN fixed |->
          IF IsPlaceholder(fixed[i].title)
          THEN [fixed[i] EXCEPT !.title =
                   IF fixed[i].bullet_points # <<>>
                   THEN GenerateTitleFromContent(fixed[i].bullet_points[1])
                   ELSE <<"Slide", ToString(fixed[i].slide_number)>>]
          ELSE fixed[i]]

\* RefinementAgent._fallback_refine_single
FallbackRefineSingle(slide) ==
    LET titled == IF IsPlaceholder(slide.title)
                  THEN [slide EXCEPT !.title =
                           IF slide.bullet_points # <<>>
                           THEN GenerateTitleFromContent(slide.bullet_points[1])
                           ELSE <<"Slide", ToString(slide.slide_number)>>]
                  ELSE slide
    IN IF titled.bullet_points = <<>>
       THEN [titled EXCEPT !.bullet_points = << <<"Content", "pending">> >>]
       ELSE titled

\* _parse_refined_content building a fresh content slide instead of
\* copying the original one
ParseRefinedContentFresh(resp, original_slide) ==
    LET title_text == StripNumbering(resp.title)
        title == IF title_text # <<>> THEN title_text ELSE original_slide.title
    IN Slide(original_slide.slide_number, StripNumbering(title),
             Take(original_slide.bullet_points \o resp.bullets, MaxBullets),
             "content", original_slide.content_focus)

\* RefinementAgent._parse_refined_content: resp.title is the line after
\* REFINED_TITLE: (<<>> when there is none), resp.bullets the lines after
\* REFINED_BULLETS: without their marker; the refined bullets are appended
\* to the original slide's list
ParseRefinedContent(resp, original_slide) ==
    LET title_text == StripNumbering(resp.title)
        title == IF title_text # <<>> THEN title_text ELSE original_slide.title
    IN [original_slide EXCEPT
          !.title = StripNumbering(title),
          !.bullet_points = Take(original_slide.bullet_points \o resp.bullets, MaxBullets)]

\* RefinementAgent.refine_single_slide with an LLM client (both backends parse
\* the response the same way)
RefineSingleSlide(slide, resp) ==
    LET retitled == IF (slide.title = <<>> \/
                        Lower(slide.title) \in {<<"untitled">>, <<"slide">>, <<"title">>})
                       /\ slide.bullet_points # <<>>
                    THEN [slide EXCEPT !.title =
                             GenerateTitleFromContent(slide.bullet_points[1])]
                    ELSE slide
    IN IF retitled.bullet_points = <<>> THEN retitled
       ELSE IF resp.kind = "raise" THEN FallbackRefineSingle(retitled)
       ELSE ParseRefinedContent(resp, retitled)

\* RefinementAgent.refine_slides; resps[i] is the LLM's response for slide i
RefineSlides(slides, backend, resps) ==
    IF slides = <<>> THEN <<>>
    ELSE IF backend = "none" THEN EnsureConsistency(slides)
    ELSE EnsureConsistency([i \in DOMAIN slides |-> RefineSingleSlide(slides[i], resps[i])])

\* ================================================== Document Understanding
\* DocumentUnderstandingAgent._clean_text: ' '.join(text.split()) removes
\* every line break, so the cleaned text is a single paragraph (or empty)
CleanText(raw) == IF Flatten(raw) = <<>> THEN <<>> ELSE <<Flatten(raw)>>

UnderstandingOk(t) == [success |-> TRUE, cleaned_text |-> t]
UnderstandingError(e) == [success |-> FALSE, error |-> e]

\* DocumentUnderstandingAgent.process_input; for an image the OCR library
\* is the collaborator that delivers raw
ProcessInput(input) ==
    IF input.input_type = "text" THEN UnderstandingOk(CleanText(input.raw))
    ELSE IF input.input_type = "image"
    THEN IF ~input.ocr_available
         THEN UnderstandingError("OCR not available. Please install pytesseract and PIL.")
         ELSE UnderstandingOk(CleanText(input.raw))
    ELSE UnderstandingError("Unsupported input type: " \o input.input_type)

MinTopics == 3
MaxTopics == 20

\* [p.strip() for p in text.split('\n\n') if p.strip()]: a paragraph of
\* blanks only is the paragraph without a sentence
Paragraphs(text) ==
    LET NonBlank(p) == p # <<>>
    IN SelectSeq(text, NonBlank)

\* estimated_topics of DocumentUnderstandingAgent.extract_key_insights
EstimatedTopics(text) == Min(Max(MinTopics, Len(Paragraphs(text)) \div 3), MaxTopics)

\* ============================================================ Orchestrator
\* _segment_content closing a segment only when it is full
SegmentContentFullOnly(text, estimated_topics) ==
    LET paragraphs == Paragraphs(text)
        per == IF estimated_topics > 0
               THEN Max(1, Len(paragraphs) \div estimated_topics) ELSE 1
        count == Len(paragraphs) \div per
    IN IF count = 0
       THEN << [topic_index |-> 0, content |-> text] >>
       ELSE [k \in 1..count |->
               [topic_index |-> k - 1,
                content |-> Slice(paragraphs, (k - 1) * per, k * per)]]

\* SlideXOrchestrator._segment_content: a segment is closed when it holds
\* paragraphs_per_topic paragraphs or at the last paragraph; a text without
\* a paragraph becomes one segment holding the text itself
SegmentContent(text, estimated_topics) ==
    LET paragraphs == Paragraphs(text)
        per == IF estimated_topics > 0
               THEN Max(1, Len(paragraphs) \div estimated_topics) ELSE 1
        count == (Len(paragraphs) + per - 1) \div per
    IN IF paragraphs = <<>>
       THEN << [topic_index |-> 0, content |-> text] >>
       ELSE [k \in 1..count |->
               [topic_index |-> k - 1,
                content |-> Slice(paragraphs, (k - 1) * per, k * per)]]

\* ============================================================= Topic Namer
NameWords == 8
NameChars == 60

\* TopicNamingAgent._extract_name_from_content
ExtractNameFromContent(segment) ==
    LET sentences == Flatten(segment.content)
    IN IF sentences = <<>> THEN <<"Untitled", "Topic">>
       ELSE TakeChars(StripTrailingPunct(Take(sentences[1], NameWords)), NameChars)

\* TopicNamingAgent._fallback_naming
FallbackNaming(topic_segments) ==
    [i \in DOMAIN topic_segments |->
        [topic_index |-> topic_segments[i].topic_index,
         content |-> topic_segments[i].content,
         name |-> ExtractNameFromContent(topic_segments[i]),
         original_index |-> i - 1]]

\* name_topics without the check of self.llm (line 89)
NameTopicsAlwaysAsks(topic_segments, backend, resp) ==
    IF resp.kind = "raise" THEN FallbackNaming(topic_segments)
    ELSE [i \in DOMAIN topic_segments |->
            [topic_index |-> topic_segments[i].topic_index,
             content |-> topic_segments[i].content,
             name |-> IF resp.names[i] # <<>> THEN resp.names[i]
                      ELSE ExtractNameFromContent(topic_segments[i]),
             original_index |-> i - 1]]

\* TopicNamingAgent.name_topics: resp.kind is "raise" or "names"; resp.names[i]
\* is the name the response gives for segment i, <<>> when it gives none
NameTopics(topic_segments, backend, resp) ==
    IF backend = "none" \/ resp.kind = "raise" THEN FallbackNaming(topic_segments)
    ELSE [i \in DOMAIN topic_segments |->
            [topic_index |-> topic_segments[i].topic_index,
             content |-> topic_segments[i].content,
             name |-> IF resp.names[i] # <<>> THEN resp.names[i]
                      ELSE ExtractNameFromContent(topic_segments[i]),
             original_index |-> i - 1]]

\* ========================================================== Reconciliation
GenericTitles == {<<"conclusion">>, <<"summary">>, <<"introduction">>, <<"overview">>}

\* re.sub(r'^\d+[.\s)]*\s*', '', title): a leading word of digits, with or
\* without "." or ")", is removed
DigitWords == {ToString(n) : n \in 0..9} \cup DotNumbers
                  \cup {ToString(n) \o ")" : n \in 0..9}
StripLeadingDigits(t) == IF t # <<>> /\ Head(t) \in DigitWords THEN Tail(t) ELSE t

RECURSIVE JoinComma(_)
\* ", ".join(titles) as words
JoinComma(titles) ==
    IF titles = <<>> THEN <<>>
    ELSE IF Len(titles) = 1 THEN Head(titles)
    ELSE [Head(titles) EXCEPT ![Len(Head(titles))] = @ \o ","] \o JoinComma(Tail(titles))

\* SlideXOrchestrator._create_conclusion_slide
CreateConclusionSlide(content_slides, slide_number) ==
    LET first == Take(content_slides, 5)
        cleaned == [i \in DOMAIN first |->
                      IF first[i].title # <<>> /\ Lower(first[i].title) \notin GenericTitles
                      THEN StripParen(StripLeadingDigits(first[i].title))
                      ELSE <<>>]
        NonEmpty(t) == t # <<>>
        key_topics == SelectSeq(cleaned, NonEmpty)
        fixed == << <<"Summary", "of", "key", "concepts", "and", "main", "topics", "discussed">>,
                    <<"Important", "insights", "and", "findings", "from", "the", "presentation">>,
                    <<"Key", "takeaways", "for", "the", "audience">> >>
        bullet_points == IF key_topics # <<>>
                         THEN << <<"Covered", "topics", "include:">>
                                   \o JoinComma(Take(key_topics, 3)) >> \o fixed
                         ELSE fixed
    IN Slide(slide_number, ConclusionTitle, Take(bullet_points, 5), "conclusion",
             <<"Summary", "and", "conclusion", "of", "the", "presentation">>)

\* Reconcile without line 144: conclusion-tagged slides are not removed
ReconcileKeepsConclusions(refined_slides, target) ==
    LET cut == Take(refined_slides, target)
        content_slides == Take(cut, Max(1, target - 1))
        all == IF target > 1
               THEN Append(content_slides, CreateConclusionSlide(content_slides, target))
               ELSE content_slides
    IN IF \E i \in DOMAIN cut : cut[i].slide_type = None
       THEN Raised("'NoneType' object has no attribute 'lower'")
       ELSE Returned(Take(all, target))

\* the reconciliation of generate_presentation (lines 140-162): the slides of
\* the result, or the AttributeError of None.lower()
Reconcile(refined_slides, target) ==
    LET cut == Take(refined_slides, target)
        NotConclusion(s) == LowerWord(s.slide_type) # "conclusion"
        kept == SelectSeq(cut, NotConclusion)
        content_slides == Take(kept, Max(1, target - 1))
        all == IF target > 1
               THEN Append(content_slides, CreateConclusionSlide(content_slides, target))
               ELSE content_slides
    IN IF \E i \in DOMAIN cut : cut[i].slide_type = None
       THEN Raised("'NoneType' object has no attribute 'lower'")
       ELSE Returned(Take(all, target))

\* ============================================================ the pipeline
\* inputs of the model
Sentence(i) == <<"Photosynthesis", "step" \o ToString(i), "yields", "product" \o ToString(i)>>
ShortText == << << <<"Hello", "world">> >> >>
LongText(n) ==
    IF n = 1 THEN << <<Sentence(1)>> >>
    ELSE << <<Sentence(1)>>, [i \in 1..(n - 1) |-> Sentence(i + 1)] >>
RawTexts == {<<>>, ShortText, LongText(MaxSentences)}

Inputs ==
    [input_type : {"text"}, ocr_available : {FALSE}, raw : RawTexts]
      \cup [input_type : {"image"}, ocr_available : BOOLEAN, raw : {LongText(1)}]
      \cup [input_type : {"video"}, ocr_available : {FALSE}, raw : {LongText(1)}]

Backends == {"none", "langchain", "genai"}

\* responses of the LLM collaborator
LLMTopicNames == {<<"Conclusion">>}
NameResponses(n) ==
    {[kind |-> "raise", names |-> <<>>]}
      \cup {[kind |-> "names", names |-> ns] : ns \in [1..n -> LLMTopicNames \cup {<<>>}]}

LLMFocus == <<"Key", "facts">>
EntryKinds == {[title |-> <<"Overview">>, slide_type |-> "content"],
               [title |-> <<"Summary">>, slide_type |-> "conclusion"]}
PlanEntriesOf(kinds) ==
    [i \in DOMAIN kinds |-> PlanEntry(i, kinds[i].title, LLMFocus, kinds[i].slide_type)]
\* an entry whose "slide_type" is JSON null
NullKind == [title |-> <<"Details">>, slide_type |-> None]
\* the text plan of the genai backend cannot carry a null or a string in
\* place of the list: its entries are matched lines
PlanResponses(target, llm) ==
    {[kind |-> "raise", entries |-> <<>>], [kind |-> "malformed", entries |-> <<>>]}
      \cup {[kind |-> "entries", entries |-> PlanEntriesOf(ks)] :
               ks \in UNION {[1..k -> EntryKinds] : k \in 0..(target + 1)}}
      \cup (IF llm = "langchain"
            THEN {[kind |-> "entries", entries |-> PlanEntriesOf(ks)] :
                     ks \in {<<NullKind>>, <<NullKind, NullKind>>}}
                   \cup {[kind |-> "string", entries |-> <<Chr("a"), Chr("b")>>]}
            ELSE {})

LLMBullet == <<"Plants", "store", "energy">>
ContentResponses ==
    {[kind |-> "raise", title |-> <<>>, bullets |-> <<>>],
     [kind |-> "short", title |-> <<>>, bullets |-> <<>>],
     [kind |-> "text", title |-> <<>>, bullets |-> <<>>],
     [kind |-> "text", title |-> <<"OVERVIEW">>, bullets |-> <<LLMBullet>>]}

RefineResponses ==
    {[kind |-> "raise", title |-> <<>>, bullets |-> <<>>],
     [kind |-> "text", title |-> <<>>, bullets |-> <<>>],
     [kind |-> "text", title |-> <<"Overview">>, bullets |-> <<LLMBullet>>]}

Stages == <<"Understanding", "Segmenting", "Naming", "Planning", "Generating",
            "Refining", "Reconciling", "Done">>

VARIABLES
    input,             \* input_content, input_type and the OCR library's presence
    target,            \* target_slide_count
    backend,           \* the LLM client the agents were constructed with
    stage,             \* the stage generate_presentation is in
    entered,           \* the stages entered so far, in order
    cleaned_text,
    topic_segments,
    named_topics,
    slide_plans,
    generated_slides,
    refined_slides,
    result,            \* the dictionary generate_presentation returns
    used_titles,       \* ContentGenerationAgent.used_titles
    used_content,      \* ContentGenerationAgent.used_content
    runs               \* calls of generate_presentation on this orchestrator so far

vars == <<input, target, backend, stage, entered, cleaned_text, topic_segments,
          named_topics, slide_plans, generated_slides, refined_slides, result,
          used_titles, used_content, runs>>

Pending == [pending |-> TRUE]
Failure(e) == [success |-> FALSE, error |-> e, slides |-> <<>>]
Success(slides, text) ==
    [success |-> TRUE, slides |-> slides, slide_count |-> Len(slides),
     cleaned_text |-> text]

Init ==
    /\ input \in Inputs
    /\ target \in 1..MaxTarget
    /\ backend \in Backends
    /\ stage = "Understanding"
    /\ entered = <<"Understanding">>
    /\ cleaned_text = <<>>
    /\ topic_segments = <<>>
    /\ named_topics = <<>>
    /\ slide_plans = <<>>
    /\ generated_slides = <<>>
    /\ refined_slides = <<>>
    /\ result = Pending
    /\ used_titles = {}
    /\ used_content = {}
    /\ runs = 1

\* the run moves on to stage s
Enter(s) == stage' = s /\ entered' = Append(entered, s)

\* Fail returning the slides generated so far
FailKeepsSlides(e) ==
    /\ Enter("Failed")
    /\ result' = [success |-> FALSE, error |-> e, slides |-> generated_slides]

\* a return {"success": False, ...}, from a check or from the except clause
Fail(e) == Enter("Failed") /\ result' = Failure(e)

\* Understand without the check of lines 79-84
UnderstandNoEmptyCheck ==
    /\ stage = "Understanding"
    /\ LET understanding_result == ProcessInput(input)
       IN IF ~understanding_result.success
          THEN Fail(understanding_result.error) /\ UNCHANGED cleaned_text
          ELSE /\ cleaned_text' = understanding_result.cleaned_text
               /\ Enter("Segmenting")
               /\ UNCHANGED result
    /\ UNCHANGED <<used_titles, used_content, runs>>
    /\ UNCHANGED <<input, target, backend, topic_segments, named_topics, slide_plans,
                   generated_slides, refined_slides>>

\* Step 1, lines 63-84
Understand ==
    /\ stage = "Understanding"
    /\ LET understanding_result == ProcessInput(input)
       IN IF ~understanding_result.success
          THEN Fail(understanding_result.error) /\ UNCHANGED cleaned_text
          ELSE IF understanding_result.cleaned_text = <<>>
          THEN Fail("No content extracted from input") /\ UNCHANGED cleaned_text
          ELSE /\ cleaned_text' = understanding_result.cleaned_text
               /\ Enter("Segmenting")
               /\ UNCHANGED result
    /\ UNCHANGED <<used_titles, used_content, runs>>
    /\ UNCHANGED <<input, target, backend, topic_segments, named_topics, slide_plans,
                   generated_slides, refined_slides>>

\* Segment handing its segments straight to the planner
SegmentSkipsNaming ==
    /\ stage = "Segmenting"
    /\ topic_segments' = SegmentContent(cleaned_text, EstimatedTopics(cleaned_text))
    /\ Enter("Planning")
    /\ UNCHANGED <<used_titles, used_content, runs>>
    /\ UNCHANGED <<input, target, backend, cleaned_text, named_topics, slide_plans,
                   generated_slides, refined_slides, result>>

\* Step 2, lines 86-93
Segment ==
    /\ stage = "Segmenting"
    /\ topic_segments' = SegmentContent(cleaned_text, EstimatedTopics(cleaned_text))
    /\ Enter("Naming")
    /\ UNCHANGED <<used_titles, used_content, runs>>
    /\ UNCHANGED <<input, target, backend, cleaned_text, named_topics, slide_plans,
                   generated_slides, refined_slides, result>>

\* Step 3, lines 95-102
Name ==
    /\ stage = "Naming"
    /\ \E resp \in NameResponses(Len(topic_segments)) :
          named_topics' = NameTopics(topic_segments, backend, resp)
    /\ Enter("Planning")
    /\ UNCHANGED <<used_titles, used_content, runs>>
    /\ UNCHANGED <<input, target, backend, cleaned_text, topic_segments, slide_plans,
                   generated_slides, refined_slides, result>>

\* Step 4, lines 104-112
Plan ==
    /\ stage = "Planning"
    /\ \E resp \in PlanResponses(target, backend) :
          slide_plans' = PlanSlides(named_topics, target, backend, resp)
    /\ Enter("Generating")
    /\ UNCHANGED <<used_titles, used_content, runs>>
    /\ UNCHANGED <<input, target, backend, cleaned_text, topic_segments, named_topics,
                   generated_slides, refined_slides, result>>

\* Generate handing no previous slides to the generator
GenerateWithoutPrevious ==
    /\ stage = "Generating"
    /\ IF Len(generated_slides) < Len(slide_plans)
       THEN \E resp \in ContentResponses :
              LET out == GenerateSlideContent(slide_plans[Len(generated_slides) + 1],
                                              cleaned_text, backend, resp,
                                              <<>>)
              IN IF out.raised # ""
                 THEN /\ Fail(out.raised)
                      /\ UNCHANGED <<generated_slides, used_titles, used_content>>
                 ELSE /\ generated_slides' = Append(generated_slides, out.value)
                      /\ used_titles' = UsedTitlesAfter(out.value, backend, used_titles)
                      /\ used_content' = UsedContentAfter(out.value, backend, used_content)
                      /\ UNCHANGED <<stage, entered, result>>
       ELSE /\ Enter("Refining")
            /\ UNCHANGED <<generated_slides, result, used_titles, used_content>>
    /\ UNCHANGED runs
    /\ UNCHANGED <<input, target, backend, cleaned_text, topic_segments, named_topics,
                   slide_plans, refined_slides>>

\* Step 5, lines 114-129: one iteration of the loop, or its exit
Generate ==
    /\ stage = "Generating"
    /\ IF Len(generated_slides) < Len(slide_plans)
       THEN \E resp \in ContentResponses :
              LET out == GenerateSlideContent(slide_plans[Len(generated_slides) + 1],
                                              cleaned_text, backend, resp,
                                              generated_slides)
              IN IF out.raised # ""
                 THEN /\ Fail(out.raised)
                      /\ UNCHANGED <<generated_slides, used_titles, used_content>>
                 ELSE /\ generated_slides' = Append(generated_slides, out.value)
                      /\ used_titles' = UsedTitlesAfter(out.value, backend, used_titles)
                      /\ used_content' = UsedContentAfter(out.value, backend, used_content)
                      /\ UNCHANGED <<stage, entered, result>>
       ELSE /\ Enter("Refining")
            /\ UNCHANGED <<generated_slides, result, used_titles, used_content>>
    /\ UNCHANGED runs
    /\ UNCHANGED <<input, target, backend, cleaned_text, topic_segments, named_topics,
                   slide_plans, refined_slides>>

\* Step 6, lines 131-138; without a client no LLM call is made
Refine ==
    /\ stage = "Refining"
    /\ \E resps \in (IF backend = "none" THEN {<<>>}
                     ELSE [1..Len(generated_slides) -> RefineResponses]) :
          refined_slides' = RefineSlides(generated_slides, backend, resps)
    /\ Enter("Reconciling")
    /\ UNCHANGED <<used_titles, used_content, runs>>
    /\ UNCHANGED <<input, target, backend, cleaned_text, topic_segments, named_topics,
                   slide_plans, generated_slides, result>>

\* lines 140-179
Finish ==
    /\ stage = "Reconciling"
    /\ LET out == Reconcile(refined_slides, target)
       IN IF out.raised # ""
          THEN Fail(out.raised)
          ELSE Enter("Done") /\ result' = Success(out.value, cleaned_text)
    /\ UNCHANGED <<used_titles, used_content, runs>>
    /\ UNCHANGED <<input, target, backend, cleaned_text, topic_segments, named_topics,
                   slide_plans, generated_slides, refined_slides>>

Next == Understand \/ Segment \/ Name \/ Plan \/ Generate \/ Refine \/ Finish

Spec == Init /\ [][Next]_vars

\* ------------------------------------------- runs with no LLM client at all
\* a text of n paragraphs of one sentence each
ParagraphText(n) == [i \in 1..n |-> <<Sentence(i)>>]
\* a text whose first sentence opens with stacked "(N)" markers
NumberedText ==
    << << <<"(1)", "(2)", "(3)", "Photosynthesis", "yields", "sugar", "in", "green",
           "leaves">> >> >>
FallbackTexts == {ParagraphText(n) : n \in 1..MaxParagraphs} \cup {NumberedText}

\* every agent's _initialize_llm returned None
FallbackInit ==
    /\ input \in [input_type : {"text"}, ocr_available : {FALSE}, raw : FallbackTexts]
    /\ target \in 1..MaxFallbackTarget
    /\ backend = "none"
    /\ stage = "Understanding"
    /\ entered = <<"Understanding">>
    /\ cleaned_text = <<>>
    /\ topic_segments = <<>>
    /\ named_topics = <<>>
    /\ slide_plans = <<>>
    /\ generated_slides = <<>>
    /\ refined_slides = <<>>
    /\ result = Pending
    /\ used_titles = {}
    /\ used_content = {}
    /\ runs = 1

FallbackSpec == FallbackInit /\ [][Next]_vars

\* --------------------------------- several runs on one orchestrator object
SessionInputs == [input_type : {"text"}, ocr_available : {FALSE}, raw : RawTexts]

SessionInit ==
    /\ input \in SessionInputs
    /\ target \in 1..MaxSessionTarget
    /\ backend \in Backends
    /\ stage = "Understanding"
    /\ entered = <<"Understanding">>
    /\ cleaned_text = <<>>
    /\ topic_segments = <<>>
    /\ named_topics = <<>>
    /\ slide_plans = <<>>
    /\ generated_slides = <<>>
    /\ refined_slides = <<>>
    /\ result = Pending
    /\ used_titles = {}
    /\ used_content = {}
    /\ runs = 1

\* generate_presentation is called again on the same orchestrator: the
\* locals are new, the agents built in __init__ and their fields stay
Invoke ==
    /\ stage \in {"Done", "Failed"}
    /\ runs < MaxRuns
    /\ runs' = runs + 1
    /\ input' \in SessionInputs
    /\ target' \in 1..MaxSessionTarget
    /\ stage' = "Understanding"
    /\ entered' = <<"Understanding">>
    /\ cleaned_text' = <<>>
    /\ topic_segments' = <<>>
    /\ named_topics' = <<>>
    /\ slide_plans' = <<>>
    /\ generated_slides' = <<>>
    /\ refined_slides' = <<>>
    /\ result' = Pending
    /\ UNCHANGED <<backend, used_titles, used_content>>

SessionNext == Next \/ Invoke

SessionSpec == SessionInit /\ [][SessionNext]_vars

\* ------------------------------------ _segment_content called on a text
\* texts of up to MaxParagraphs paragraphs, each the i-th sentence or blank
SegmenterTexts ==
    UNION {{[i \in 1..n |-> IF i \in blank THEN <<>> ELSE <<Sentence(i)>>] :
               blank \in SUBSET (1..n)} : n \in 1..MaxParagraphs}

SegmenterInit ==
    /\ input = [input_type |-> "text", ocr_available |-> FALSE, raw |-> <<>>]
    /\ target = 1
    /\ backend = "none"
    /\ stage = "Segmenting"
    /\ entered = <<"Segmenting">>
    /\ cleaned_text \in SegmenterTexts
    /\ topic_segments = <<>>
    /\ named_topics = <<>>
    /\ slide_plans = <<>>
    /\ generated_slides = <<>>
    /\ refined_slides = <<>>
    /\ result = Pending
    /\ used_titles = {}
    /\ used_content = {}
    /\ runs = 1

SegmenterSpec == SegmenterInit /\ [][Segment]_vars

\* ------------------------------- refine_slides called on a given slide list
\* titles as a generator or a caller may hand them over: plain, numbered,
\* with stacked numbering, empty, a placeholder, padded with a blank
GivenTitles ==
    {<<"Overview">>, <<"Chlorophyll">>, <<"1.", "Overview">>, <<"1.", "(2)", "Overview">>,
     <<>>, <<"Untitled">>, <<"Overview", "">>}
GivenBullets == {<<>>, <<LLMBullet>>, << <<"Untitled">> >>}
\* the slide lists of up to MaxSlides slides, numbered from 1
GivenSlideLists ==
    UNION {[1..n -> [title : GivenTitles, bullet_points : GivenBullets]] : n \in 1..MaxSlides}

\* the agent has no LLM client, so refine_slides is _ensure_consistency
RefineInit ==
    /\ input = [input_type |-> "text", ocr_available |-> FALSE, raw |-> ShortText]
    /\ \E given \in GivenSlideLists :
          /\ generated_slides =
                [i \in DOMAIN given |->
                    Slide(i, given[i].title, given[i].bullet_points, "content", <<>>)]
          /\ target = Len(given)
    /\ backend = "none"
    /\ stage = "Refining"
    /\ entered = <<"Refining">>
    /\ cleaned_text = CleanText(ShortText)
    /\ topic_segments = <<>>
    /\ named_topics = <<>>
    /\ slide_plans = <<>>
    /\ refined_slides = <<>>
    /\ result = Pending
    /\ used_titles = {}
    /\ used_content = {}
    /\ runs = 1

RefineSpec == RefineInit /\ [][Refine]_vars

\* ================================================================== claims
HasReturned == stage \in {"Done", "Failed"}
Succeeded == stage = "Done"
\* plan_slides has returned
Planned == \E i \in DOMAIN entered : entered[i] = "Generating"
ResultTitles == [i \in DOMAIN result.slides |-> Lower(result.slides[i].title)]

\* C1: a successful result has exactly target_slide_count slides and
\* slide_count equals that number.
C1_ExactSlideCount ==
    Succeeded => (Len(result.slides) = target /\ result.slide_count = target)

\* C2: for target_slide_count > 1 the last slide of a successful result has
\* slide_type "conclusion" and no other slide has it.
C2_ConclusionOnlyLast ==
    (Succeeded /\ target > 1) =>
        /\ result.slides # <<>>
        /\ \A i \in DOMAIN result.slides :
              (result.slides[i].slide_type = "conclusion") <=> (i = Len(result.slides))

\* C2 witness: a successful run with more than one slide whose plan carried a
\* conclusion-typed entry before the last one.
C2_Witness ==
    /\ Succeeded /\ target > 1
    /\ \E i \in DOMAIN slide_plans :
          i < Len(slide_plans) /\ slide_plans[i].slide_type = "conclusion"
    /\ Len(result.slides) > 1

\* C3: the titles of a successful result are pairwise distinct when compared
\* in lower case.
C3_TitlesDistinct ==
    Succeeded =>
        \A i, j \in DOMAIN result.slides :
            i # j => ResultTitles[i] # ResultTitles[j]

\* C4: once extraction has yielded a non-empty cleaned text the run never
\* ends as a failure, whatever the LLM does.
C4_NeverFailsAfterExtraction ==
    (stage = "Failed") => cleaned_text = <<>>

\* C5: an empty cleaned text ends the run with success=false, the error
\* "No content extracted from input" and no slides, and no later stage runs.
C5_EmptyTextFails ==
    (ProcessInput(input).success /\ ProcessInput(input).cleaned_text = <<>>
        /\ stage # "Understanding") =>
        /\ result = Failure("No content extracted from input")
        /\ entered = <<"Understanding", "Failed">>
        /\ topic_segments = <<>> /\ named_topics = <<>> /\ slide_plans = <<>>
        /\ generated_slides = <<>> /\ refined_slides = <<>>

\* C5 witness: the run on an empty text input has returned.
C5_Witness == input.input_type = "text" /\ input.raw = <<>> /\ stage = "Failed"

\* C6: every failed run returns success=false with an error and an empty
\* slide list, also when slides had already been generated; a result exists
\* exactly when the run has ended.
C6_FailureResult ==
    /\ ("success" \in DOMAIN result) <=> HasReturned
    /\ (stage = "Failed") =>
          /\ DOMAIN result = {"success", "error", "slides"}
          /\ result.success = FALSE
          /\ result.error \notin {"", None}
          /\ result.slides = <<>>

\* C6 witness: an exception raised after a slide had been generated.
C6_Witness ==
    /\ stage = "Failed" /\ generated_slides # <<>>
    /\ result.error = "integer modulo by zero"

\* C7: the stages are entered in the fixed order, each at most once; Failed
\* is entered only as the last stage and never left; success=true comes
\* only from Done.
C7_StageOrder ==
    /\ Len(entered) <= Len(Stages)
    /\ stage = entered[Len(entered)]
    /\ \A i \in DOMAIN entered :
          \/ entered[i] = Stages[i]
          \/ i = Len(entered) /\ i > 1 /\ entered[i] = "Failed" /\ Stages[i - 1] # "Done"
    /\ ("success" \in DOMAIN result /\ result.success) <=> stage = "Done"

\* C7 witness: a run that failed in the last stage before Done.
C7_Witness ==
    stage = "Failed" /\ Len(entered) = Len(Stages) /\ entered[Len(entered) - 1] = "Reconciling"

\* C8: for target_slide_count = 1 a successful result is exactly one slide
\* and that slide is not a conclusion slide.
C8_SingleContentSlide ==
    (Succeeded /\ target = 1) =>
        /\ Len(result.slides) = 1
        /\ result.slides[1].slide_type # "conclusion"

\* C9: for target_count > 1 the plan list has target_count entries and its
\* last entry has slide_number target_count, type "conclusion" and title
\* "Conclusion", on either backend.
C9_PlanEndsInConclusion ==
    (Planned /\ target > 1) =>
        /\ Len(slide_plans) = target
        /\ slide_plans[target].slide_number = target
        /\ slide_plans[target].slide_type = "conclusion"
        /\ slide_plans[target].title = ConclusionTitle

\* C10: for target_slide_count > 1 exactly one plan has slide_type
\* "conclusion" and it is the last one, numbered target_slide_count.
C10_OneConclusionPlan ==
    (Planned /\ target > 1) =>
        /\ slide_plans # <<>>
        /\ \A i \in DOMAIN slide_plans :
              (slide_plans[i].slide_type = "conclusion") <=> (i = Len(slide_plans))
        /\ slide_plans[Len(slide_plans)].slide_number = target

\* refine_slides has returned
Refined == \E i \in DOMAIN entered : entered[i] = "Reconciling"

\* bullet b shares more than 70% of its words with bullet p
Overlaps(b, p) ==
    Cardinality(WordSet(b) \cap WordSet(p)) * 10 > Cardinality(WordSet(b)) * 7

\* no bullet of a slide overlaps a bullet of an earlier slide of the list
NoBulletOverlap(slides) ==
    \A i, j \in DOMAIN slides :
        j < i => \A b \in DOMAIN slides[i].bullet_points :
                    \A q \in DOMAIN slides[j].bullet_points :
                        ~Overlaps(slides[i].bullet_points[b], slides[j].bullet_points[q])

\* C11: the titles of every plan list that plan_slides returns are pairwise
\* distinct when compared in lower case.
C11_PlanTitlesDistinct ==
    Planned =>
        \A i, j \in DOMAIN slide_plans :
            i # j => Lower(slide_plans[i].title) # Lower(slide_plans[j].title)

\* C12: after refinement, and in the final result, no bullet of a slide has
\* more than 70% word overlap with a bullet of an earlier slide.
C12_NoBulletOverlap ==
    /\ Refined => NoBulletOverlap(refined_slides)
    /\ Succeeded => NoBulletOverlap(result.slides)

\* the title begins with "(N)", "N." or "Slide N:"
HasNumberingPrefix(t) ==
    \/ t # <<>> /\ Head(t) \in ParenNumbers \cup DotNumbers
    \/ Len(t) >= 2 /\ LowerWord(t[1]) = "slide" /\ t[2] \in ColonNumbers

\* C13: no slide title of a successful result begins with a numbering
\* prefix "(N)", "N." or "Slide N:", also when the title came from a text
\* with stacked prefixes.
C13_NoNumberingPrefix ==
    Succeeded => \A i \in DOMAIN result.slides : ~HasNumberingPrefix(result.slides[i].title)

\* titles and bullet lists of a slide list
TitlesAndBullets(slides) ==
    [i \in DOMAIN slides |->
        [title |-> slides[i].title, bullet_points |-> slides[i].bullet_points]]

\* the slides of the run in which every agent takes its deterministic
\* fallback: a function of the input and the target count alone
FallbackRun(in, t) ==
    LET text == ProcessInput(in).cleaned_text
        named == FallbackNaming(SegmentContent(text, EstimatedTopics(text)))
        plans == FallbackPlanning(named, t)
        gen == [i \in DOMAIN plans |-> FallbackContentGeneration(plans[i], text).value]
    IN Reconcile(EnsureConsistency(gen), t).value

Segmented == \E i \in DOMAIN entered : entered[i] = "Naming"
\* the generation loop has ended
Generated == \E i \in DOMAIN entered : entered[i] = "Refining"

\* C16: for a text of 9 paragraphs and target_slide_count = 5 the Segmenter
\* produces 3 segments, the Planner 5 plans whose 5th is the conclusion, and
\* Content Generation 5 slides with pairwise distinct titles.
C16_NineParagraphScenario ==
    (Len(input.raw) = 9 /\ target = 5) =>
        /\ Segmented => Len(topic_segments) = 3
        /\ Planned => /\ Len(slide_plans) = 5
                      /\ slide_plans[5].slide_type = "conclusion"
        /\ Generated =>
              /\ Len(generated_slides) = 5
              /\ \A i, j \in DOMAIN generated_slides :
                    i # j => generated_slides[i].title # generated_slides[j].title

\* the title needs no cleaning: no blank at an end, no numbering prefix
CleanTitle(t) == StripBlanks(t) = t /\ ~HasNumberingPrefix(t)
\* the title is neither empty nor one of the placeholder words
ProperTitle(t) == t # <<>> /\ Lower(t) \notin {<<"untitled">>, <<"slide">>}
\* how many slides of the list carry title t
Carrying(slides, t) == Cardinality({i \in DOMAIN slides : slides[i].title = t})

\* titles pairwise distinct, non-empty, non-generic, free of numbering
ConsistentTitles(slides) ==
    /\ \A i, j \in DOMAIN slides : i # j => slides[i].title # slides[j].title
    /\ \A i \in DOMAIN slides :
          ProperTitle(slides[i].title) /\ ~HasNumberingPrefix(slides[i].title)

\* C15 as stated: on a slide list whose titles are pairwise distinct,
\* non-empty, non-generic and free of numbering prefixes,
\* _ensure_consistency changes nothing.
C15_IdempotentAsStated ==
    (Refined /\ ConsistentTitles(generated_slides)) => refined_slides = generated_slides

\* C15 amended: on such a slide list whose titles moreover carry no leading
\* or trailing whitespace, _ensure_consistency changes no title and no other
\* field of any slide.
C15_IdempotentOnConsistent ==
    (Refined /\ ConsistentTitles(generated_slides)
        /\ \A i \in DOMAIN generated_slides : StripBlanks(generated_slides[i].title) = generated_slides[i].title)
        => refined_slides = generated_slides

\* C15 witness: _ensure_consistency has run on two consistent slides.
C15_Witness ==
    /\ Refined /\ ConsistentTitles(generated_slides) /\ Len(generated_slides) >= 2
    /\ \A i \in DOMAIN generated_slides : CleanTitle(generated_slides[i].title)

\* C17: when exactly two slides enter refinement with the same title and
\* the second has a bullet, afterwards the first keeps the title, no other
\* slide carries it, and the second's new title differs from the titles of
\* the slides before it.
C17_TwoIdenticalTitles ==
    Refined =>
        \A i, j \in DOMAIN generated_slides :
            LET t == generated_slides[i].title
            IN (/\ i < j /\ generated_slides[j].title = t
                /\ Carrying(generated_slides, t) = 2
                /\ ProperTitle(t) /\ CleanTitle(t)
                /\ generated_slides[j].bullet_points # <<>>)
               => /\ refined_slides[i].title = t
                  /\ Carrying(refined_slides, t) <= 1
                  /\ \A k \in 1..(j - 1) : refined_slides[k].title # refined_slides[j].title

\* C18: a title that occurs k >= 2 times before _ensure_consistency is
\* carried by exactly one slide afterwards, the first: every later
\* occurrence has been replaced.
C18_AllLaterOccurrencesReplaced ==
    Refined =>
        \A i \in DOMAIN generated_slides :
            LET t == generated_slides[i].title
                first == \A k \in 1..(i - 1) : generated_slides[k].title # t
            IN (ProperTitle(t) /\ CleanTitle(t) /\ Carrying(generated_slides, t) >= 2)
               => /\ first => refined_slides[i].title = t
                  /\ ~first => refined_slides[i].title # t

\* C19: stripping the numbering prefixes of a title twice gives what
\* stripping them once gives, for every title _ensure_consistency cleans.
C19_StripIdempotent ==
    Refined =>
        \A i \in DOMAIN generated_slides :
            LET t == generated_slides[i].title
            IN StripNumbering(StripNumbering(t)) = StripNumbering(t)

\* C20: after _ensure_consistency no slide has an empty title or the title
\* "untitled" or "slide" in any case.
C20_NoPlaceholderTitle ==
    Refined => \A i \in DOMAIN refined_slides : ProperTitle(refined_slides[i].title)

\* C21: without an LLM, the slides generated for two different slide numbers
\* of one run have different bullet lists, for every text with a valid
\* sentence.
C21_FallbackWindowsDiffer ==
    (backend = "none" /\ ValidSentences(cleaned_text) # <<>>) =>
        \A m, n \in DOMAIN generated_slides :
            m # n => generated_slides[m].bullet_points # generated_slides[n].bullet_points

\* slide i of the run is one the validator accepts against the slides before
\* it, or it is the fallback generator's slide for plan i
AcceptedOrFallback(i) ==
    \/ ValidateUniqueness(generated_slides[i], SubSeq(generated_slides, 1, i - 1))
    \/ generated_slides[i] = FallbackContentGeneration(slide_plans[i], cleaned_text).value

\* C22: on both LLM backends a slide that the uniqueness validator rejects
\* is never the slide the Content Generator returns: every generated slide
\* either passes the validator or is the fallback-generated slide.
C22_RejectedSlideReplaced ==
    backend # "none" => \A i \in DOMAIN generated_slides : AcceptedOrFallback(i)

\* C23: the Content Generator's used-titles and used-content sets hold only
\* entries of slides generated in the current run; at the start of every
\* run they are empty.
C23_UsedSetsResetEachRun ==
    /\ used_titles \subseteq {Lower(generated_slides[i].title) : i \in DOMAIN generated_slides}
    /\ used_content \subseteq
          UNION {{TakeChars(Lower(generated_slides[i].bullet_points[b]), UsedContentChars) :
                     b \in DOMAIN generated_slides[i].bullet_points} :
                 i \in DOMAIN generated_slides}

\* C24: slides are generated one at a time in plan order: every step that
\* changes the generated list appends the slide for the next plan, produced
\* with exactly the slides generated so far in this run as previous_slides.
C24_SequentialGeneration ==
    [][(stage = "Generating" /\ generated_slides' # generated_slides) =>
          /\ Len(generated_slides) < Len(slide_plans)
          /\ \E resp \in ContentResponses :
                LET out == GenerateSlideContent(slide_plans[Len(generated_slides) + 1],
                                                cleaned_text, backend, resp,
                                                generated_slides)
                IN out.raised = "" /\ generated_slides' = Append(generated_slides, out.value)]_vars

\* C24 witness: on an LLM backend two slides have been generated and a third
\* plan is waiting.
C24_Witness ==
    /\ stage = "Generating" /\ backend # "none"
    /\ Len(generated_slides) = 2 /\ Len(slide_plans) > 2

\* C25: the Segmenter makes P // g segments of g = max(1, P // estimated_topics)
\* paragraphs each, the last one holding the g + (P mod g) paragraphs that
\* remain, and no additional short segment.
C25_LastSegmentAbsorbsRemainder ==
    LET P == Len(Paragraphs(cleaned_text))
        g == Max(1, P \div EstimatedTopics(cleaned_text))
        n == Len(topic_segments)
    IN (Segmented /\ P >= 1) =>
          /\ n = P \div g
          /\ \A k \in 1..(n - 1) : Len(topic_segments[k].content) = g
          /\ Len(topic_segments[n].content) = g + (P % g)

\* the paragraphs of all segments, in list order
SegmentParagraphs ==
    Paragraphs(Flatten([k \in DOMAIN topic_segments |-> topic_segments[k].content]))

\* C30: for every non-empty text the Segmenter returns at least one segment,
\* no segment is empty, the segments' paragraphs in list order are exactly
\* the paragraphs of the text in their order, each once, and topic_index
\* counts 0, 1, 2, ... along the list.
C30_SegmentsPartitionText ==
    (Segmented /\ cleaned_text # <<>>) =>
        /\ topic_segments # <<>>
        /\ \A k \in DOMAIN topic_segments :
              /\ topic_segments[k].content # <<>>
              /\ topic_segments[k].topic_index = k - 1
        /\ SegmentParagraphs = Paragraphs(cleaned_text)

\* C30 witness: a text whose paragraphs do not fill the last segment.
C30_Witness ==
    /\ Segmented /\ Len(topic_segments) >= 2
    /\ Len(topic_segments[Len(topic_segments)].content) < Len(topic_segments[1].content)

\* the responses on which the planner has no usable plan: the call raised,
\* no JSON object with a "slides" list, or a text plan of fewer than target lines
PlanFailure(resp) ==
    \/ backend = "none"
    \/ resp.kind \in {"raise", "malformed", "string"}
    \/ backend = "genai" /\ Len(resp.entries) < target

\* C26: plan_slides never propagates an exception (no run fails in the
\* planning stage), and whenever the LLM is absent, its call raises, its
\* response has no parseable "slides" list or its text plan has fewer than
\* target lines, plan_slides returns exactly the fallback planner's plan for
\* the same topics and target.
C26_PlanFallsBack ==
    /\ (stage = "Failed" /\ Len(entered) >= 2) => entered[Len(entered) - 1] # "Planning"
    /\ stage = "Planning" =>
          \A resp \in PlanResponses(target, backend) :
             PlanFailure(resp) =>
                PlanSlides(named_topics, target, backend, resp)
                   = FallbackPlanning(named_topics, target)
    /\ (Planned /\ backend = "none") =>
          slide_plans = FallbackPlanning(named_topics, target)

\* C27: refine_slides returns as many slides as it was given, in the same
\* order, and every slide keeps its slide_number, slide_type and
\* content_focus, with an LLM and without one.
C27_RefinementKeepsFrame ==
    Refined =>
        /\ Len(refined_slides) = Len(generated_slides)
        /\ \A i \in DOMAIN refined_slides :
              /\ refined_slides[i].slide_number = generated_slides[i].slide_number
              /\ refined_slides[i].slide_type = generated_slides[i].slide_type
              /\ refined_slides[i].content_focus = generated_slides[i].content_focus

\* C27 witness: an LLM refinement that rewrote the title of a conclusion
\* slide that is not the first of two or more.
C27_Witness ==
    /\ Refined /\ backend # "none" /\ Len(refined_slides) >= 2
    /\ \E i \in DOMAIN refined_slides :
          /\ i > 1
          /\ refined_slides[i].slide_type = "conclusion"
          /\ refined_slides[i].title # generated_slides[i].title

\* C28: in every successful result the slide at position i has
\* slide_number i, the conclusion slide included.
C28_SlideNumbersContiguous ==
    Succeeded =>
        \A i \in DOMAIN result.slides : result.slides[i].slide_number = i

\* C29: a refined slide's bullet list is the list it had before or, when
\* the LLM's response carries k >= 1 bullets under REFINED_BULLETS, exactly
\* those k bullets (at most 8) in place of the original ones.
C29_RefinedBulletsReplace ==
    Refined =>
        \A i \in DOMAIN refined_slides :
            \/ refined_slides[i].bullet_points = generated_slides[i].bullet_points
            \/ \E resp \in RefineResponses :
                  /\ resp.bullets # <<>>
                  /\ refined_slides[i].bullet_points = Take(resp.bullets, MaxBullets)

====
